---- MODULE Spec2Model ----
(***************************************************************************)
(* Model of the FLUX fine-tune / generate applications:                    *)
(*   finetune.py : request_finetuning, finetune_progress,                  *)
(*                 store_finetune_id, main                                 *)
(*   generate.py : generate_image, check_inference, read_finetunes, main   *)
(* The remote HTTP service and the Streamlit inputs are the environment:   *)
(* their values are drawn with \E from small sets.                         *)
(***************************************************************************)
EXTENDS Integers, FiniteSets, Sequences, TLC

\* ------------------------------------------------------------------ bounds
\* Most status fetches one polling loop may issue in the model.
MaxPolls == 3

\* --------------------------------------------------------- python values
\* An optional value: None is the empty set, a present value v is {v}.
None == {}
Some(v) == {v}
TheValue(o) == CHOOSE v \in o : TRUE

\* (variant: only None counts as missing, as an `is None` test would)
FalsyOnlyNone(o) == o = None

\* A python dict is a function on the set of its keys.
EmptyDict == [k \in {} |-> k]
\* d[k] = v on a copy of d
DictPut(d, k, v) == [x \in (DOMAIN d) \cup {k} |-> IF x = k THEN v ELSE d[x]]
\* d.get(k): None when the key is absent
DictGet(d, k) == IF k \in DOMAIN d THEN Some(d[k]) ELSE None
\* python truthiness of d.get(k) for string values: None and "" are falsy
Falsy(o) == o = None \/ o = Some("")

\* ------------------------------------------------------------ input sets
Names == {"a", "b"}
Ids == {"id1", "id2"}
ApiKeys == {"", "k"}
Modes == {"character", "product", "style", "general"}
Priorities == {"speed", "quality"}
FinetuneTypes == {"full", "lora"}
LoraRanks == {16, 32}

\* ------------------------------------------------------- remote statuses
FailureStatuses == {"Task not found", "Request Moderated", "Content Moderated", "Error"}
TerminalStatuses == {"Ready"} \cup FailureStatuses
NonTerminalStatuses == {"Pending", "Running"}
Statuses == NonTerminalStatuses \cup TerminalStatuses
NoStatus == "none"

\* --------------------------------------------------------------- HTTP POST
\* What the remote may answer to a create-job POST: a non-2xx status (or a
\* transport failure), or a 2xx whose JSON body carries the identifier
\* field `idField`, carries it empty, or lacks it.
PostResponses(idField) ==
    {[ok |-> FALSE, body |-> EmptyDict]}
    \cup {[ok |-> TRUE, body |-> b] :
            b \in {EmptyDict} \cup {DictPut(EmptyDict, idField, i) : i \in Ids \cup {""}}}

\* The outcome of a call that raised before any request was sent.
Raised(exc) ==
    [raised |-> exc, posted |-> FALSE, posts |-> 0, key |-> None,
     payload |-> EmptyDict, response |-> EmptyDict]

\* (variant: a non-2xx answer is retried once)
PostRetryOnce(key, payload, http) ==
    [raised |-> IF http.ok THEN "none" ELSE "HTTPError", posted |-> TRUE,
     posts |-> IF http.ok THEN 1 ELSE 2, key |-> key, payload |-> payload,
     response |-> IF http.ok THEN http.body ELSE EmptyDict]

\* requests.post(url, headers, json=payload); raise_for_status(); return json()
\* `key` is the optional value put in the X-Key header, `posts` the number
\* of POST requests sent.
Post(key, payload, http) ==
    [raised |-> IF http.ok THEN "none" ELSE "HTTPError", posted |-> TRUE,
     posts |-> 1, key |-> key, payload |-> payload,
     response |-> IF http.ok THEN http.body ELSE EmptyDict]

\* (variant: the field is added only when its value is truthy)
WithOptionalIfTruthy(payload, field, opt) ==
    IF opt /= None /\ opt /= Some(0) THEN DictPut(payload, field, TheValue(opt))
    ELSE payload

\* The optional field is added to the payload only when it is not None.
WithOptional(payload, field, opt) ==
    IF opt /= None THEN DictPut(payload, field, TheValue(opt)) ELSE payload

\* The mode assertion of request_finetuning.
ModeAccepted(mode) == mode \in {"character", "product", "style", "general"}

\* The payload request_finetuning builds: the required fields, and
\* learning_rate when it was given.
FinetunePayload(a) ==
    WithOptional(
        [finetune_comment |-> a.finetune_comment,
         trigger_word |-> a.trigger_word,
         file_data |-> "b64zip",
         iterations |-> a.iterations,
         mode |-> a.mode,
         captioning |-> a.captioning,
         priority |-> a.priority,
         lora_rank |-> a.lora_rank,
         finetune_type |-> a.finetune_type],
        "learning_rate", a.learning_rate)

\* (variant: the archive is not looked for before the request is sent)
request_finetuning_unchecked(a, env, zipExists, http) ==
    IF a.api_key = None /\ env = None THEN Raised("ValueError")
    ELSE IF ~ModeAccepted(a.mode) THEN Raised("AssertionError")
    ELSE Post(IF a.api_key = None THEN env ELSE a.api_key,
              FinetunePayload(a), http)

\* finetune.py request_finetuning: `a` is the argument record, `env` the
\* optional BFL_API_KEY of the environment, `zipExists` whether zip_path
\* names a file, `http` the remote's answer should a POST be sent.
request_finetuning(a, env, zipExists, http) ==
    IF a.api_key = None /\ env = None THEN Raised("ValueError")
    ELSE IF ~zipExists THEN Raised("FileNotFoundError")
    ELSE IF ~ModeAccepted(a.mode) THEN Raised("AssertionError")
    ELSE Post(IF a.api_key = None THEN env ELSE a.api_key,
              FinetunePayload(a), http)

\* generate.py generate_image: no argument is validated.
generate_image(a, http) ==
    Post(a.api_key,
         WithOptional(
            [finetune_id |-> a.finetune_id,
             finetune_strength |-> a.finetune_strength,
             prompt |-> a.prompt,
             steps |-> a.steps,
             guidance |-> a.guidance,
             width |-> a.width,
             height |-> a.height,
             safety_tolerance |-> a.safety_tolerance,
             output_format |-> a.output_format],
            "seed", a.seed),
         http)


\* ---------------------------------------------------------- the registry
\* finetune_id.json: whether the file exists and the dict it holds.
NoFile == [exists |-> FALSE, data |-> EmptyDict]

\* (variant: the existing file is not loaded)
LoadNothing(f) == EmptyDict

\* store_finetune_id, first half: the dict loaded from the file, {} when
\* the file does not exist.
LoadExisting(f) == IF f.exists THEN f.data ELSE EmptyDict

\* (variant: only the new entry is written)
StoredOnlyNew(data, finetune_comment, finetune_id) ==
    DictPut(EmptyDict, finetune_comment, finetune_id)

\* (variant: key and value exchanged, data[finetune_id] = finetune_comment)
StoredSwapped(data, finetune_comment, finetune_id) ==
    DictPut(data, finetune_id, finetune_comment)

\* (variant: the assignment is left out and the loaded data written back)
StoredUnchanged(data, finetune_comment, finetune_id) == data

\* store_finetune_id, second half: the loaded dict with the one key set,
\* written back as the whole file.
StoredData(data, finetune_comment, finetune_id) ==
    DictPut(data, finetune_comment, finetune_id)

\* (variant: the file is opened without the existence check)
read_finetunes_unchecked(f) ==
    IF f.exists THEN [raised |-> "none", value |-> f.data]
    ELSE [raised |-> "FileNotFoundError", value |-> EmptyDict]

\* generate.py read_finetunes: the stored dict, {} when there is no file.
read_finetunes(f) ==
    IF f.exists THEN [raised |-> "none", value |-> f.data]
    ELSE [raised |-> "none", value |-> EmptyDict]

\* ------------------------------------------------------------ status poll
\* The optional progress field of a status response, in tenths.
ProgressValues == {None, Some(2), Some(8), Some(12)}

\* isinstance(progress_value, (int, float)) and 0 <= progress_value <= 1
ProgressShown(progress) ==
    progress /= None /\ 0 <= TheValue(progress) /\ TheValue(progress) <= 10

\* (variant: the "Error" branch is missing)
ClassifyWithoutError(status) ==
    CASE status = "Ready" -> "success"
      [] status = "Task not found" -> "task_not_found"
      [] status = "Request Moderated" -> "request_moderated"
      [] status = "Content Moderated" -> "content_moderated"
      [] OTHER -> "in_progress"

\* check_inference: the branch a status string takes.
Classify(status) ==
    CASE status = "Ready" -> "success"
      [] status = "Task not found" -> "task_not_found"
      [] status = "Request Moderated" -> "request_moderated"
      [] status = "Content Moderated" -> "content_moderated"
      [] status = "Error" -> "error"
      [] OTHER -> "in_progress"

\* finetune.py main: the polling loop breaks on "Ready" alone.
FinetuneDone(status) == status = "Ready"


\* ------------------------------------------------------ result extraction
\* JSON values of the `result` field: null, an object, or a string.
JsonNull == [t |-> "null"]
JsonObj(d) == [t |-> "obj", d |-> d]
JsonStr(text) == [t |-> "str", s |-> text]

\* The result objects the remote may send.
ResultObjects ==
    {EmptyDict, [sample |-> "https://x/img.png"], [sample |-> ""], [other |-> "x"]}

\* json.dumps of a result object.
JsonDumps(d) ==
    CASE d = [sample |-> "https://x/img.png"] -> "{\"sample\": \"https://x/img.png\"}"
      [] d = [sample |-> ""] -> "{\"sample\": \"\"}"
      [] d = [other |-> "x"] -> "{\"other\": \"x\"}"
      [] OTHER -> "{}"

\* The texts a string-valued result may hold: encoded objects, JSON that is
\* no object, and text that is no JSON.
ResultTexts == {JsonDumps(d) : d \in ResultObjects} \cup {"null", "not json"}

\* json.loads: the decoded value, or JSONDecodeError.
JsonLoads(text) ==
    CASE text = "{\"sample\": \"https://x/img.png\"}" ->
            [ok |-> TRUE, value |-> JsonObj([sample |-> "https://x/img.png"])]
      [] text = "{\"sample\": \"\"}" -> [ok |-> TRUE, value |-> JsonObj([sample |-> ""])]
      [] text = "{\"other\": \"x\"}" -> [ok |-> TRUE, value |-> JsonObj([other |-> "x"])]
      [] text = "{}" -> [ok |-> TRUE, value |-> JsonObj(EmptyDict)]
      [] text = "null" -> [ok |-> TRUE, value |-> JsonNull]
      [] OTHER -> [ok |-> FALSE, value |-> JsonNull]

\* The optional `result` field of a status response.
ResultFields ==
    {None, Some(JsonNull)}
    \cup {Some(JsonObj(d)) : d \in ResultObjects}
    \cup {Some(JsonStr(text)) : text \in ResultTexts}

\* generate.py main, after check_inference returns: what is shown for the
\* `result` field of the final response.
\*   image            st.image(sample_url)
\*   error_format     "Unexpected result format"
\*   error_nourl      "No image URL found in the result."
\*   error_exception  result.get raised, caught by `except Exception`
Shown(kind, artifact) == [kind |-> kind, artifact |-> artifact]

\* sample_url = result.get("sample"), shown when truthy
SampleOf(value) ==
    IF value.t /= "obj" THEN Shown("error_exception", None)
    ELSE IF Falsy(DictGet(value.d, "sample")) THEN Shown("error_nourl", None)
    ELSE Shown("image", DictGet(value.d, "sample"))

\* (variant: the isinstance(result, str) branch is left out)
ExtractWithoutDecoding(resultField) ==
    SampleOf(IF resultField = None THEN JsonObj(EmptyDict)
             ELSE TheValue(resultField))

\* result = final_data.get("result", {}), decoded when it is a string
Extract(resultField) ==
    LET result == IF resultField = None THEN JsonObj(EmptyDict) ELSE TheValue(resultField)
    IN  IF result.t = "str"
        THEN IF JsonLoads(result.s).ok THEN SampleOf(JsonLoads(result.s).value)
             ELSE Shown("error_format", None)
        ELSE SampleOf(result)

\* ------------------------------------------------------------- seed input
SeedTexts == {"", " ", "0", "7", "x"}
\* seed.strip()
Strip(text) == IF text = " " THEN "" ELSE text
\* int(seed): the integer, or None for ValueError
ParseInt(text) ==
    CASE text = "0" -> Some(0)
      [] text = "7" -> Some(7)
      [] OTHER -> None


\* ------------------------------------------------------------------ state
VARIABLES
    sessions,     \* the fine-tune app sessions (script threads) that exist
    file,         \* finetune_id.json
    ft,           \* per fine-tune session: position and locals of main()
    gen,          \* the generate app session: position and locals of main()
    lastPut,      \* history: name -> id of the latest completed store_finetune_id
    overlapped,   \* history: some store_finetune_id loaded while another was
                  \* between its load and its write
    call          \* the latest direct call of a submission function

vars == <<sessions, file, ft, gen, lastPut, overlapped, call>>

FtIdle ==
    [pc |-> "idle", key |-> "", comment |-> "", fid |-> "",
     data |-> EmptyDict, posts |-> 0, post |-> "none", fetches |-> 0,
     failed |-> FALSE, events |-> 0, nonterm |-> 0, last |-> NoStatus,
     outcome |-> "none"]

GenIdle ==
    [pc |-> "idle", key |-> "", comment |-> "", sent |-> None,
     posts |-> 0, post |-> "none", job |-> "", fetches |-> 0,
     failed |-> FALSE, events |-> 0, nonterm |-> 0, last |-> NoStatus,
     bar |-> None, cls |-> "none", result |-> None, outcome |-> "none",
     artifact |-> None]

NoCall == [fn |-> "none"]

InitWith(S) ==
    /\ sessions = S
    /\ file = NoFile
    /\ ft = [p \in S |-> FtIdle]
    /\ gen = GenIdle
    /\ lastPut = EmptyDict
    /\ overlapped = FALSE
    /\ call = NoCall

\* One fine-tune session at a time and the generate app.
Init == InitWith({1})
\* Two fine-tune sessions served at once.
InitConc == InitWith({1, 2})

\* ------------------------------------------------- finetune.py main()
\* `if not api_key`: warn and st.stop()
FtKeyMissing(api_key) == api_key = ""

\* A script run in which "Submit for Finetuning" was clicked, up to the
\* return of request_finetuning and the reading of finetune_id.
FtSubmit(p) ==
    /\ ft[p].pc \in {"idle", "ended"}
    /\ \E key \in ApiKeys, uploaded \in BOOLEAN, comment \in Names,
          mode \in Modes, lr \in {None, Some(100)},
          http \in PostResponses("finetune_id") :
        LET r == request_finetuning(
                    [finetune_comment |-> comment, trigger_word |-> "TOK",
                     mode |-> mode, api_key |-> Some(key), iterations |-> 300,
                     learning_rate |-> lr, captioning |-> TRUE,
                     priority |-> "quality", finetune_type |-> "full",
                     lora_rank |-> 32],
                    None, TRUE, http)
            fresh == [FtIdle EXCEPT !.key = key, !.pc = "ended"]
        IN  ft' = [ft EXCEPT ![p] =
              IF FtKeyMissing(key) THEN [fresh EXCEPT !.outcome = "stopped_nokey"]
              ELSE IF ~uploaded THEN [fresh EXCEPT !.outcome = "stopped_nofile"]
              ELSE IF r.raised /= "none"
                THEN [fresh EXCEPT !.outcome = "error", !.posts = r.posts,
                                   !.post = IF r.posted THEN "failed" ELSE "none"]
              ELSE IF Falsy(DictGet(r.response, "finetune_id"))
                THEN [fresh EXCEPT !.outcome = "warn_noid", !.posts = r.posts,
                                   !.post = "2xx"]
              ELSE [fresh EXCEPT !.pc = "store_load", !.posts = r.posts,
                                 !.post = "2xx", !.comment = comment,
                                 !.fid = TheValue(DictGet(r.response, "finetune_id"))]]
    /\ UNCHANGED <<sessions, file, gen, lastPut, overlapped, call>>

\* store_finetune_id: load the existing data.
FtStoreLoad(p) ==
    /\ ft[p].pc = "store_load"
    /\ ft' = [ft EXCEPT ![p].data = LoadExisting(file), ![p].pc = "store_write"]
    /\ overlapped' = (overlapped \/ \E q \in sessions \ {p} : ft[q].pc = "store_write")
    /\ UNCHANGED <<sessions, file, gen, lastPut, call>>

\* store_finetune_id: set the key and write the file back; the function
\* returns and its local dict is gone.
FtStoreWrite(p) ==
    /\ ft[p].pc = "store_write"
    /\ file' = [exists |-> TRUE,
                data |-> StoredData(ft[p].data, ft[p].comment, ft[p].fid)]
    /\ lastPut' = DictPut(lastPut, ft[p].comment, ft[p].fid)
    /\ ft' = [ft EXCEPT ![p].pc = "polling", ![p].data = EmptyDict]
    /\ UNCHANGED <<sessions, gen, overlapped, call>>

\* (variant: the failed fetch is swallowed and the loop goes on)
FetchFailureIgnored(run) == [run EXCEPT !.fetches = @ + 1]

\* A status fetch that failed: raise_for_status (or the request itself)
\* raises inside the loop, the exception leaves the loop and reaches the
\* handler of main, which shows it and ends the run.
FetchRaised(run) ==
    [run EXCEPT !.fetches = @ + 1, !.pc = "ended", !.outcome = "error"]

\* What the remote may answer to a status fetch: a failure of the call, or
\* a status with optional progress and result.  A job that reported a
\* terminal status keeps reporting it.  Progress varies on the in-progress
\* statuses and the result on the terminal ones: these are the responses
\* on which the code uses the field.
FetchResponses(last) ==
    {[ok |-> FALSE, status |-> NoStatus, progress |-> None, result |-> None]}
    \cup {[ok |-> TRUE, status |-> s, progress |-> pr, result |-> None] :
            s \in IF last \in TerminalStatuses THEN {} ELSE NonTerminalStatuses,
            pr \in ProgressValues}
    \cup {[ok |-> TRUE, status |-> s, progress |-> None, result |-> res] :
            s \in IF last \in TerminalStatuses THEN {last} ELSE TerminalStatuses,
            res \in ResultFields}

\* One tick of the fine-tune polling loop: finetune_progress, then break on
\* "Ready" or report the status and sleep.
FtPoll(p) ==
    /\ ft[p].pc = "polling"
    /\ ft[p].fetches < MaxPolls
    /\ \E resp \in FetchResponses(ft[p].last) :
        ft' = [ft EXCEPT ![p] =
          IF ~resp.ok
            THEN [FetchRaised(@) EXCEPT !.failed = TRUE]
          ELSE IF FinetuneDone(resp.status)
            THEN [@ EXCEPT !.fetches = @ + 1, !.last = resp.status,
                           !.pc = "ended", !.outcome = "ready"]
          ELSE [@ EXCEPT !.fetches = @ + 1, !.last = resp.status,
                         !.events = @ + 1,
                         !.nonterm = IF resp.status \in TerminalStatuses
                                     THEN @ ELSE @ + 1]]
    /\ UNCHANGED <<sessions, file, gen, lastPut, overlapped, call>>


\* ------------------------------------------------- generate.py main()
\* (variant: the key check is missing)
GenKeyNeverMissing(api_key) == FALSE

\* `if not api_key`: warn and st.stop()
GenKeyMissing(api_key) == api_key = ""

\* (variant: the first stored fine-tune is used, whatever was chosen)
LookupFirst(finetunes, finetune_comment) ==
    finetunes[CHOOSE n \in DOMAIN finetunes : TRUE]

\* finetune_id = finetunes[finetune_comment]
LookupFinetune(finetunes, finetune_comment) == finetunes[finetune_comment]

\* A script run in which "Generate Image" was clicked, up to the return of
\* generate_image and the reading of the inference id.
GenSubmit ==
    /\ gen.pc \in {"idle", "ended"}
    /\ \E key \in ApiKeys, pick \in Names, seed \in SeedTexts,
          fmt \in {"jpeg", "png"}, http \in PostResponses("id") :
        LET rf == read_finetunes(file)
            seedInt == IF Strip(seed) = "" THEN None ELSE ParseInt(seed)
            r == generate_image(
                    [finetune_id |-> LookupFinetune(rf.value, pick),
                     api_key |-> Some(key),
                     prompt |-> "image of a TOK", finetune_strength |-> 11,
                     steps |-> 40, guidance |-> 25, width |-> 512,
                     height |-> 768, seed |-> seedInt, safety_tolerance |-> 2,
                     output_format |-> fmt],
                    http)
            fresh == [GenIdle EXCEPT !.key = key, !.pc = "ended"]
            chosen == [fresh EXCEPT !.comment = pick]
        IN  /\ (~GenKeyMissing(key) /\ rf.raised = "none" /\ rf.value /= EmptyDict)
                    => pick \in DOMAIN rf.value
            /\ gen' =
                IF GenKeyMissing(key) THEN [fresh EXCEPT !.outcome = "stopped_nokey"]
                ELSE IF rf.raised /= "none" THEN [fresh EXCEPT !.outcome = "crash"]
                ELSE IF rf.value = EmptyDict
                  THEN [fresh EXCEPT !.outcome = "stopped_nofinetunes"]
                ELSE IF Strip(seed) /= "" /\ seedInt = None
                  THEN [chosen EXCEPT !.outcome = "error_seed"]
                ELSE IF r.raised /= "none"
                  THEN [chosen EXCEPT !.outcome = "error", !.posts = r.posts,
                                      !.post = "failed",
                                      !.sent = Some(r.payload["finetune_id"])]
                ELSE IF Falsy(DictGet(r.response, "id"))
                  THEN [chosen EXCEPT !.outcome = "error_noid", !.posts = r.posts,
                                      !.post = "2xx",
                                      !.sent = Some(r.payload["finetune_id"])]
                ELSE [chosen EXCEPT !.pc = "polling", !.posts = r.posts,
                                    !.post = "2xx",
                                    !.job = TheValue(DictGet(r.response, "id")),
                                    !.sent = Some(r.payload["finetune_id"])]
    /\ UNCHANGED <<sessions, file, ft, lastPut, overlapped, call>>

\* (variant: a progress value of 1 or more is taken as completion)
check_inference_progress_ends(g, resp) ==
    IF Classify(resp.status) /= "in_progress"
         \/ (resp.progress /= None /\ TheValue(resp.progress) >= 10)
      THEN [g EXCEPT !.fetches = @ + 1, !.last = resp.status,
                     !.cls = IF Classify(resp.status) = "in_progress"
                             THEN "success" ELSE Classify(resp.status),
                     !.pc = "returned"]
    ELSE [g EXCEPT !.fetches = @ + 1, !.last = resp.status,
                   !.events = @ + 1,
                   !.nonterm = IF resp.status \in TerminalStatuses
                               THEN @ ELSE @ + 1,
                   !.bar = IF ProgressShown(resp.progress)
                           THEN resp.progress ELSE @]

\* check_inference, one pass of its loop on a fetched status response:
\* return on a terminal status, else show status and progress and go on.
check_inference(g, resp) ==
    IF Classify(resp.status) /= "in_progress"
      THEN [g EXCEPT !.fetches = @ + 1, !.last = resp.status,
                     !.cls = Classify(resp.status), !.pc = "returned"]
    ELSE [g EXCEPT !.fetches = @ + 1, !.last = resp.status,
                   !.events = @ + 1,
                   !.nonterm = IF resp.status \in TerminalStatuses
                               THEN @ ELSE @ + 1,
                   !.bar = IF ProgressShown(resp.progress)
                           THEN resp.progress ELSE @]

\* main after check_inference returned final_data: the result field is
\* normalised and the image or an error shown.
ShowResult(g, final_data) ==
    [g EXCEPT !.pc = "ended", !.result = final_data.result,
              !.outcome = Extract(final_data.result).kind,
              !.artifact = Extract(final_data.result).artifact]

\* One pass of the generation poll loop, with what main does when the loop
\* returns or raises.
GenPoll ==
    /\ gen.pc = "polling"
    /\ gen.fetches < MaxPolls
    /\ \E resp \in FetchResponses(gen.last) :
        gen' =
          IF ~resp.ok
            THEN [FetchRaised(gen) EXCEPT !.failed = TRUE]
          ELSE IF check_inference(gen, resp).pc = "returned"
            THEN ShowResult(check_inference(gen, resp), resp)
          ELSE check_inference(gen, resp)
    /\ UNCHANGED <<sessions, file, ft, lastPut, overlapped, call>>

\* The fine-tune app, one session: submissions, stores and polling.
Next ==
    \/ \E p \in sessions : FtSubmit(p)
    \/ \E p \in sessions : FtStoreLoad(p)
    \/ \E p \in sessions : FtStoreWrite(p)
    \/ \E p \in sessions : FtPoll(p)

Spec == Init /\ [][Next]_vars

\* The generate app, beside a fine-tune session that submits and stores
\* the identifier the generate app reads.
NextGen ==
    \/ \E p \in sessions : FtSubmit(p)
    \/ \E p \in sessions : FtStoreLoad(p)
    \/ \E p \in sessions : FtStoreWrite(p)
    \/ GenSubmit
    \/ GenPoll

SpecGen == Init /\ [][NextGen]_vars

\* A fine-tune run and a generation run that have both submitted and are
\* about to fetch their first status: the fine-tune stored  c -> i  and the
\* generation run sent  i  and was given the inference id  j.
FtSubmitted(c, i) ==
    [FtIdle EXCEPT !.pc = "polling", !.key = "k", !.comment = c, !.fid = i,
                   !.posts = 1, !.post = "2xx"]

GenSubmitted(c, i, j) ==
    [GenIdle EXCEPT !.pc = "polling", !.key = "k", !.comment = c,
                    !.sent = Some(i), !.posts = 1, !.post = "2xx", !.job = j]

InitPolling ==
    \E c \in Names, i \in {"id1"}, j \in {"id2"} :
        /\ sessions = {1}
        /\ file = [exists |-> TRUE, data |-> DictPut(EmptyDict, c, i)]
        /\ ft = [p \in {1} |-> FtSubmitted(c, i)]
        /\ gen = GenSubmitted(c, i, j)
        /\ lastPut = DictPut(EmptyDict, c, i)
        /\ overlapped = FALSE
        /\ call = NoCall

\* The two poll loops side by side.
NextPoll ==
    \/ \E p \in sessions : FtPoll(p)
    \/ GenPoll

SpecPoll == InitPolling /\ [][NextPoll]_vars

\* The registry left behind by earlier fine-tune runs.
StoredBefore == DictPut(DictPut(EmptyDict, "a", "id1"), "b", "id2")

\* Fresh sessions of both apps, started with no registry file or with the
\* one earlier runs left behind.
InitStored ==
    /\ sessions = {1}
    /\ file \in {NoFile, [exists |-> TRUE, data |-> StoredBefore]}
    /\ ft = [p \in {1} |-> FtIdle]
    /\ gen = GenIdle
    /\ lastPut = file.data
    /\ overlapped = FALSE
    /\ call = NoCall

\* Submissions of the generate app beside a fine-tune session that stores
\* into a registry that already holds both names.
NextStored ==
    \/ \E p \in sessions : FtSubmit(p)
    \/ \E p \in sessions : FtStoreLoad(p)
    \/ \E p \in sessions : FtStoreWrite(p)
    \/ GenSubmit

SpecStored == InitStored /\ [][NextStored]_vars

\* The fine-tune app alone, two sessions at once, each up to the point
\* where its identifier is stored.
NextConc ==
    \/ \E p \in sessions : FtSubmit(p)
    \/ \E p \in sessions : FtStoreLoad(p)
    \/ \E p \in sessions : FtStoreWrite(p)

SpecConc == InitConc /\ [][NextConc]_vars

\* ------------------------------------- direct calls of the two functions
OptionalKeys == {None, Some(""), Some("k")}

CallRequestFinetuning ==
    /\ call.fn = "none"
    /\ \E key \in OptionalKeys, env \in OptionalKeys, zipExists \in BOOLEAN,
          comment \in Names, mode \in Modes \cup {"invalid"},
          lr \in {None, Some(0), Some(100)}, priority \in Priorities \cup {"fast"},
          ftype \in FinetuneTypes \cup {"dreambooth"}, rank \in LoraRanks \cup {8},
          http \in PostResponses("finetune_id") :
        LET a == [finetune_comment |-> comment, trigger_word |-> "TOK",
                  mode |-> mode, api_key |-> key, iterations |-> 300,
                  learning_rate |-> lr, captioning |-> TRUE,
                  priority |-> priority, finetune_type |-> ftype,
                  lora_rank |-> rank]
        IN  call' = [fn |-> "request_finetuning", a |-> a, env |-> env,
                     zipExists |-> zipExists,
                     res |-> request_finetuning(a, env, zipExists, http)]
    /\ UNCHANGED <<sessions, file, ft, gen, lastPut, overlapped>>

CallGenerateImage ==
    /\ call.fn = "none"
    /\ \E key \in OptionalKeys, fid \in Ids, seed \in {None, Some(0), Some(7)},
          fmt \in {"jpeg", "png"}, http \in PostResponses("id") :
        LET a == [finetune_id |-> fid, api_key |-> key,
                  prompt |-> "A majestic image of a TOK", finetune_strength |-> 11,
                  steps |-> 40, guidance |-> 25, width |-> 512, height |-> 512,
                  seed |-> seed, safety_tolerance |-> 2, output_format |-> fmt]
        IN  call' = [fn |-> "generate_image", a |-> a,
                     res |-> generate_image(a, http)]
    /\ UNCHANGED <<sessions, file, ft, gen, lastPut, overlapped>>

NextReq == CallRequestFinetuning \/ CallGenerateImage

SpecReq == Init /\ [][NextReq]_vars


\* ================================================================ claims

\* C1: in check_inference, a status fetch that returns one of the four
\* terminal-failure statuses ends the loop on that tick with that status
\* as the returned response, classified apart from every other terminal
\* status, and no further status fetch is issued for that job.
C1_FailureStatusEndsInferencePoll ==
    /\ [](gen.last \in FailureStatuses =>
            /\ gen.pc = "ended"
            /\ gen.cls = Classify(gen.last)
            /\ gen.cls /= "in_progress"
            /\ \A t \in TerminalStatuses \ {gen.last} : Classify(t) /= gen.cls)
    /\ [][gen.last \in FailureStatuses => gen'.fetches <= gen.fetches]_vars

\* C1 witness: the loop returned "Content Moderated" on its second tick.
C1_Witness ==
    gen.last = "Content Moderated" /\ gen.pc = "ended" /\ gen.fetches = 2
    /\ gen.cls = "content_moderated"

\* C2: in the fine-tune polling loop, once a status fetch returned a
\* terminal status (Ready or one of the four failures) no further status
\* fetch is issued for that job.
C2_TerminalStatusStopsFinetunePoll ==
    [][\A p \in sessions :
        ft[p].last \in TerminalStatuses => ft'[p].fetches <= ft[p].fetches]_vars

\* C3: after n non-terminal responses and then a terminal one, a polling
\* loop has issued n+1 fetches, has emitted n status events (one per
\* non-terminal response, none for the terminal one) and has returned.
PollCounts(loop) ==
    /\ loop.events = loop.nonterm
    /\ (loop.last \in TerminalStatuses /\ loop.outcome /= "error") =>
            (loop.fetches = loop.nonterm + 1 /\ loop.pc = "ended")

C3_PollCountsForScriptedSequence ==
    PollCounts(gen) /\ \A p \in sessions : PollCounts(ft[p])

\* C4: with every fetch succeeding, a polling loop has returned exactly
\* when the latest status it fetched is terminal.
FtReturned(p) == ft[p].pc = "ended" /\ ft[p].outcome = "ready"
GenReturned == gen.pc = "ended" /\ gen.cls \notin {"none", "in_progress"}

C4_ReturnsExactlyOnTerminal ==
    /\ \A p \in sessions : ft[p].outcome /= "error" =>
            (FtReturned(p) <=> ft[p].last \in TerminalStatuses)
    /\ gen.outcome /= "error" => (GenReturned <=> gen.last \in TerminalStatuses)


\* C5: with one writer at a time, the registry read back maps every name
\* ever stored to the identifier of its latest store; a store changes the
\* entry of its own name only and removes no entry.
C5_RegistryKeepsLatestPut ==
    /\ [](read_finetunes(file) = [raised |-> "none", value |-> lastPut])
    /\ [][\A n \in DOMAIN file.data :
            /\ n \in DOMAIN file'.data
            /\ file'.data[n] /= file.data[n] =>
                    \E p \in sessions : ft[p].pc = "store_write" /\ ft[p].comment = n]_vars

\* C5 witness: "a" was stored over a registry that already held "b", and
\* both entries are read back.
C5_Witness ==
    /\ file.exists /\ file.data = [a |-> "id2", b |-> "id1"]
    /\ ft[1].pc = "polling" /\ ft[1].comment = "a" /\ ft[1].fid = "id2"

\* C6: while finetune_id.json does not exist, the generate app reads an
\* empty registry and stops with its "no fine-tunes" warning instead of
\* failing, and the store that creates the file writes exactly the one
\* entry being stored.
C6_AbsentStorageIsEmptyRegistry ==
    [][~file.exists =>
        /\ (gen' /= gen /\ gen'.key /= "") => gen'.outcome = "stopped_nofinetunes"
        /\ file'.exists =>
            \E p \in sessions :
                /\ ft[p].pc = "store_write"
                /\ file'.data = DictPut(EmptyDict, ft[p].comment, ft[p].fid)]_vars

\* C6 witness: the generate app ran on absent storage, and the first store
\* then created a one-entry registry.
C6_Witness ==
    /\ gen.outcome = "stopped_nofinetunes"
    /\ file.exists /\ Cardinality(DOMAIN file.data) = 1
    /\ ft[1].pc = "polling" /\ file.data[ft[1].comment] = ft[1].fid

\* C7: with two sessions storing at once, an entry of a completed store is
\* missing from the registry only if some store loaded the file while
\* another was between its load and its write.
C7_NoLostUpdateWithoutOverlap ==
    ~overlapped => (file.data = lastPut /\ (file.exists <=> lastPut /= EmptyDict))

\* C7 witness: both sessions finished storing different names, and one of
\* the two entries is missing from the registry.
C7_Witness ==
    /\ \A p \in sessions : ft[p].pc = "polling"
    /\ ft[1].comment /= ft[2].comment
    /\ \E p \in sessions : ft[p].comment \notin DOMAIN file.data

\* C8: a posted payload holds learning_rate (fine-tune) or seed (inference)
\* exactly when the caller passed a value other than None, with that value,
\* and holds every other argument unchanged and nothing else.
FinetuneFields ==
    {"finetune_comment", "trigger_word", "iterations", "mode", "captioning",
     "priority", "lora_rank", "finetune_type"}
InferenceFields ==
    {"finetune_id", "finetune_strength", "prompt", "steps", "guidance", "width",
     "height", "safety_tolerance", "output_format"}

PayloadCarries(payload, a, fields, optional) ==
    /\ (optional \in DOMAIN payload) <=> (a[optional] /= None)
    /\ a[optional] /= None => payload[optional] = TheValue(a[optional])
    /\ \A k \in fields : k \in DOMAIN payload /\ payload[k] = a[k]

C8_OptionalFieldOnlyWhenSet ==
    /\ (call.fn = "request_finetuning" /\ call.res.posted) =>
        /\ PayloadCarries(call.res.payload, call.a, FinetuneFields, "learning_rate")
        /\ DOMAIN call.res.payload \subseteq
                FinetuneFields \cup {"file_data", "learning_rate"}
    /\ (call.fn = "generate_image" /\ call.res.posted) =>
        /\ PayloadCarries(call.res.payload, call.a, InferenceFields, "seed")
        /\ DOMAIN call.res.payload \subseteq InferenceFields \cup {"seed"}

\* C8 witness: an inference request with seed 0 was posted with seed 0.
C8_Witness ==
    /\ call.fn = "generate_image" /\ call.res.posted
    /\ call.a.seed = Some(0) /\ call.res.payload["seed"] = 0

\* C9: a fine-tune request whose mode, priority, finetune_type or lora_rank
\* lies outside its enumerated set fails before any request is sent.
C9_OutOfEnumRejected ==
    (/\ call.fn = "request_finetuning"
     /\ \/ call.a.mode \notin Modes
        \/ call.a.priority \notin Priorities
        \/ call.a.finetune_type \notin FinetuneTypes
        \/ call.a.lora_rank \notin LoraRanks)
    => (~call.res.posted /\ call.res.raised /= "none")

\* C10: in both apps a run with an empty API key stops with the key
\* warning before submitting: no POST is issued in that run.
KeyRequired(run) ==
    run.key = "" =>
        /\ run.posts = 0
        /\ run.pc \in {"idle", "ended"}
        /\ run.pc = "ended" => run.outcome = "stopped_nokey"

Runs == {ft[p] : p \in sessions} \cup {gen}

\* C11: a submit operation sends at most one create-job POST, and a non-2xx
\* answer to it ends the operation with an error, without a second POST, a
\* registry write or a status fetch.
C11_SubmissionFiresOnce ==
    \A run \in Runs :
        /\ run.posts <= 1
        /\ run.post = "failed" =>
              /\ run.pc = "ended"
              /\ run.outcome = "error"
              /\ run.posts = 1
              /\ run.fetches = 0

C11_Witness ==
    /\ gen.post = "failed"
    /\ gen.posts = 1
    /\ gen.outcome = "error"

C11_WitnessFinetune ==
    \E p \in sessions : ft[p].post = "failed" /\ ft[p].posts = 1

\* C12: a 2xx submission answer without a usable identifier (finetune_id for
\* a fine-tune, id for an inference) ends the operation with a reported
\* failure after its single POST; it is not retried, nothing is stored under
\* a job handle and no status fetch is sent.
C12_MissingIdentifierEndsOperation ==
    /\ \A p \in sessions :
          (ft[p].post = "2xx" /\ ft[p].fid \notin Ids) =>
              /\ ft[p].pc = "ended"
              /\ ft[p].outcome = "warn_noid"
              /\ ft[p].posts = 1
              /\ ft[p].fetches = 0
    /\ (gen.post = "2xx" /\ gen.job \notin Ids) =>
          /\ gen.pc = "ended"
          /\ gen.outcome = "error_noid"
          /\ gen.posts = 1
          /\ gen.fetches = 0
    /\ \A run \in Runs : run.outcome \in {"warn_noid", "error_noid"} =>
                            run.post = "2xx"

C12_Witness ==
    /\ gen.post = "2xx"
    /\ gen.job \notin Ids
    /\ gen.outcome = "error_noid"

C12_WitnessFinetune ==
    \E p \in sessions : /\ ft[p].post = "2xx"
                        /\ ft[p].fid \notin Ids
                        /\ ft[p].outcome = "warn_noid"
                        /\ ~file.exists

\* Outcomes of a fine-tune run that ended without a returned identifier.
FailedSubmissionOutcomes ==
    {"stopped_nokey", "stopped_nofile", "error", "warn_noid"}

\* C13: the registry changes only by the store of a fine-tune submission
\* that returned an identifier, and that store maps the submitted comment to
\* the returned identifier; a fine-tune submission that failed and every
\* step of an inference operation leave the registry as it was.
C13_RegistryChangesOnlyOnSuccessfulFinetune ==
    /\ [](\A p \in sessions :
            ft[p].pc = "polling" =>
                /\ file.exists
                /\ ft[p].comment \in DOMAIN file.data
                /\ file.data[ft[p].comment] = ft[p].fid)
    /\ [][file' /= file =>
            \E p \in sessions :
                /\ ft[p].pc = "store_write"
                /\ ft[p].post = "2xx"
                /\ ft[p].fid \in Ids
                /\ ft'[p].pc = "polling"
                /\ file'.exists
                /\ ft[p].comment \in DOMAIN file'.data
                /\ file'.data[ft[p].comment] = ft[p].fid
                /\ gen' = gen]_vars
    /\ [][gen' /= gen => file' = file]_vars
    /\ [][\A p \in sessions :
            (ft'[p] /= ft[p] /\ ft'[p].outcome \in FailedSubmissionOutcomes)
                => file' = file]_vars

C13_Witness ==
    /\ gen.pc = "ended"
    /\ gen.outcome = "image"
    /\ \E p \in sessions : /\ ft[p].pc = "polling"
                           /\ file.exists
                           /\ file.data[ft[p].comment] = ft[p].fid

C13_WitnessFailedSubmission ==
    /\ ~file.exists
    /\ \E p \in sessions : ft[p].outcome \in FailedSubmissionOutcomes

\* Result objects that carry an artifact reference under "sample".
ObjectsWithSample ==
    {R \in ResultObjects : "sample" \in DOMAIN R /\ R["sample"] /= ""}

\* C14: when the poll returned Ready with a result object R that carries a
\* sample reference, the image shown is R's sample value, whether the
\* response held R as an object or as the JSON text of R.
C14_BothEncodingsGiveTheSample ==
    \A R \in ObjectsWithSample :
        (/\ gen.pc = "ended"
         /\ gen.last = "Ready"
         /\ gen.result \in {Some(JsonObj(R)), Some(JsonStr(JsonDumps(R)))})
        => /\ gen.outcome = "image"
           /\ gen.artifact = Some(R["sample"])
           /\ Extract(Some(JsonObj(R))) = Extract(Some(JsonStr(JsonDumps(R))))

C14_Witness ==
    \E R \in ObjectsWithSample :
        /\ gen.pc = "ended"
        /\ gen.last = "Ready"
        /\ gen.result = Some(JsonStr(JsonDumps(R)))
        /\ gen.artifact = Some(R["sample"])

C14_WitnessObject ==
    \E R \in ObjectsWithSample :
        /\ gen.pc = "ended"
        /\ gen.last = "Ready"
        /\ gen.result = Some(JsonObj(R))
        /\ gen.artifact = Some(R["sample"])

\* An error message was shown in the generation run: by check_inference for
\* a failure status, or by main for the submission, the fetch or the result.
ErrorReported(g) ==
    \/ g.cls \in {"task_not_found", "request_moderated", "content_moderated",
                  "error"}
    \/ g.outcome \in {"error", "error_noid", "error_seed", "error_format",
                      "error_nourl", "error_exception"}

\* C15: an inference operation that was submitted ends with an image or
\* with a reported error, never both and never neither; an image is shown
\* only after status Ready and a result holding a sample reference; a
\* failure status, an undecodable result text and a result without the
\* reference each end with an error and no image.
C15_ArtifactOrErrorNeverBoth ==
    (gen.pc = "ended" /\ gen.posts = 1) =>
        /\ (gen.artifact /= None) /= ErrorReported(gen)
        /\ gen.artifact /= None =>
              /\ gen.last = "Ready"
              /\ Extract(gen.result).kind = "image"
        /\ gen.last \in FailureStatuses =>
              /\ ErrorReported(gen)
              /\ gen.artifact = None
        /\ (gen.cls /= "none" /\ Extract(gen.result).kind /= "image") =>
              /\ ErrorReported(gen)
              /\ gen.artifact = None

\* What the generation run does keep: with status Ready, exactly one of
\* image and error.
C15_HoldsAfterReady ==
    (gen.pc = "ended" /\ gen.posts = 1 /\ gen.last \notin FailureStatuses) =>
        /\ (gen.artifact /= None) /= ErrorReported(gen)
        /\ (gen.cls /= "none" /\ Extract(gen.result).kind /= "image") =>
              /\ ErrorReported(gen)
              /\ gen.artifact = None

\* Reachability of the starting points of SpecPoll in the full applications.
FtSubmittedReached ==
    \E c \in Names, i \in Ids :
        /\ ft[1] = FtSubmitted(c, i)
        /\ file = [exists |-> TRUE, data |-> DictPut(EmptyDict, c, i)]
        /\ lastPut = DictPut(EmptyDict, c, i)

GenSubmittedReached ==
    \E c \in Names, i \in Ids, j \in Ids :
        /\ ft[1] = FtSubmitted(c, i)
        /\ gen = GenSubmitted(c, i, j)
        /\ file = [exists |-> TRUE, data |-> DictPut(EmptyDict, c, i)]
        /\ lastPut = DictPut(EmptyDict, c, i)
        /\ ~overlapped

\* C16: in both poll loops a failed status fetch ends the whole operation
\* with an error; the run that saw it sends no further fetch.
C16_FetchFailureAbortsPolling ==
    /\ [](\A run \in Runs :
            run.failed => /\ run.pc = "ended"
                          /\ run.outcome = "error"
                          /\ run.fetches >= 1)
    /\ [][/\ gen.failed => gen'.fetches = gen.fetches
          /\ \A p \in sessions :
                ft[p].failed => ft'[p].fetches = ft[p].fetches]_vars

C16_Witness ==
    /\ gen.failed
    /\ gen.fetches = 2
    /\ \E p \in sessions : ft[p].failed /\ ft[p].fetches = 1

\* What the poll loop decides: how many fetches were sent, whether it has
\* returned, the last status and its classification.
Control(g) ==
    [fetches |-> g.fetches, returned |-> g.pc /= "polling", last |-> g.last,
     cls |-> g.cls]

\* The status response with the progress value replaced.
WithProgress(status, pr) ==
    [ok |-> TRUE, status |-> status, progress |-> pr, result |-> None]

\* C17: the poll loop does not act on progress. Every pass of the loop
\* leaves the fetch count, the returned flag, the last status and the
\* classification as they would be with any other progress value (absent,
\* in range, out of range) and any other progress bar shown so far; so two
\* runs fed the same statuses and different progress values fetch equally
\* often, return in the same tick and classify alike.
C17_ProgressDoesNotSteerPolling ==
    [][(gen.pc = "polling" /\ gen' /= gen /\ ~gen'.failed) =>
          \A pr \in ProgressValues, shown \in ProgressValues :
              Control(gen') =
                  Control(check_inference([gen EXCEPT !.bar = shown],
                                          WithProgress(gen'.last, pr)))]_vars

C17_Witness ==
    /\ gen.pc = "ended"
    /\ gen.cls = "success"
    /\ gen.fetches = 3
    /\ gen.bar = Some(2)

\* C18 as stated: a fine-tune request whose archive does not exist fails
\* with FileNotFoundError and sends no POST.
C18_MissingArchiveIsNotFound ==
    (call.fn = "request_finetuning" /\ ~call.zipExists) =>
        /\ call.res.raised = "FileNotFoundError"
        /\ ~call.res.posted
        /\ call.res.posts = 0

\* C18, amended: a fine-tune request whose archive does not exist sends no
\* POST and fails before any network call: with FileNotFoundError when a
\* credential is at hand (argument or environment), whatever the mode, and
\* with the ValueError of the credential check when there is none.
C18_MissingArchiveFailsBeforePost ==
    (call.fn = "request_finetuning" /\ ~call.zipExists) =>
        /\ ~call.res.posted
        /\ call.res.posts = 0
        /\ call.res.raised =
              IF call.a.api_key = None /\ call.env = None
              THEN "ValueError" ELSE "FileNotFoundError"

C18_Witness ==
    /\ call.fn = "request_finetuning"
    /\ ~call.zipExists
    /\ call.a.api_key = Some("k")
    /\ call.a.mode = "invalid"
    /\ call.res.raised = "FileNotFoundError"
    /\ ~call.res.posted

\* C19: every inference submission that is sent carries the identifier the
\* registry file holds for the chosen name when the run reads it, which is
\* the identifier of the latest fine-tune stored under that name; none is
\* sent without a registry entry.
C19_SentIdIsTheStoredId ==
    /\ [][(gen' /= gen /\ gen.pc /= "polling" /\ gen'.posts >= 1) =>
            /\ file.exists
            /\ gen'.comment \in DOMAIN file.data
            /\ gen'.sent = Some(file.data[gen'.comment])
            /\ gen'.comment \in DOMAIN lastPut
            /\ gen'.sent = Some(lastPut[gen'.comment])]_vars
    /\ [](gen.posts >= 1 => (gen.sent /= None /\ TheValue(gen.sent) \in Ids))
    /\ [][(~file.exists \/ file.data = EmptyDict) =>
            (gen'.posts = 0 \/ gen' = gen)]_vars

C19_WitnessNoRegistry ==
    /\ ~file.exists
    /\ gen.pc = "ended"
    /\ gen.outcome = "stopped_nofinetunes"
    /\ gen.posts = 0

C19_Witness ==
    /\ gen.posts = 1
    /\ gen.comment = "a"
    /\ gen.sent = Some("id2")
    /\ file.data = DictPut(StoredBefore, "a", "id2")

\* C20: in the fine-tune flow the store comes after the identifier was
\* returned and before the first status fetch, and is not undone: while the
\* run polls and after polling ended, with Ready or with a failed fetch,
\* the registry maps the run's comment to the returned identifier.
C20_StoredBeforePollingAndKept ==
    /\ [](\A p \in sessions :
            /\ ft[p].pc \in {"store_load", "store_write"} =>
                  (ft[p].fid \in Ids /\ ft[p].fetches = 0)
            /\ (ft[p].pc = "polling" \/ ft[p].fetches > 0) =>
                  /\ ft[p].fid \in Ids
                  /\ file.exists
                  /\ ft[p].comment \in DOMAIN file.data
                  /\ file.data[ft[p].comment] = ft[p].fid)
    /\ [][\A p \in sessions :
            ft'[p].fetches > ft[p].fetches =>
                /\ ft[p].pc = "polling"
                /\ file' = file]_vars

C20_Witness ==
    \E p \in sessions :
        /\ ft[p].pc = "ended"
        /\ ft[p].failed
        /\ ft[p].fetches = 2
        /\ file.data[ft[p].comment] = ft[p].fid

C20_WitnessReady ==
    \E p \in sessions :
        /\ ft[p].pc = "ended"
        /\ ft[p].outcome = "ready"
        /\ file.data[ft[p].comment] = ft[p].fid

C20_WitnessStillPolling ==
    \E p \in sessions :
        /\ ft[p].pc = "polling"
        /\ ft[p].fetches = MaxPolls
        /\ file.data[ft[p].comment] = ft[p].fid

====
